---------------------------- MODULE Spec2Model ----------------------------
(* A model of the subtitle pipeline of backend/server.py:                 *)
(*   - translate_vtt_content: chunked translation of a subtitle document  *)
(*   - generate_vtt: word reconstruction from speech tokens, subtitle     *)
(*     cues of six words                                                  *)
(*   - format_vtt_timestamp: the HH:MM:SS.mmm rendering of milliseconds   *)
(*   - get_transcript, get_transcript_vtt: the handlers that fetch the    *)
(*     transcript of the provider, store it and delete it at the provider *)
(* and of sonox.py: main and poll_until_complete, the polling client.     *)
(* Strings are sequences of one-character strings, so that split, strip,  *)
(* join and the substring tests act on characters as Python's do.         *)
EXTENDS Integers, Sequences, FiniteSets, TLC

VARIABLES
    \* translate_vtt_content
    vtt_content,        \* the argument: the document, a string
    lines,              \* vtt_content.split('\n')
    translated_lines,   \* the copy of lines the translations are written to
    chunks,             \* the translation chunks: [text_lines, indices]
    ci,                 \* position of the chunk loop (1-based index in chunks)
    calls,              \* history: one entry per translate_text_with_openai call
    sent,               \* text_to_translate of the last call
    result,             \* the string translate_vtt_content returned
    raised,             \* whether an exception left translate_vtt_content
    tpc,                \* control point of translate_vtt_content
    \* generate_vtt
    tokens,             \* transcript_data['tokens']
    words,              \* the reconstructed words
    current_word,       \* the accumulator's text
    current_start_ms,   \* the accumulator's start
    current_end_ms,     \* the accumulator's end
    ti,                 \* position of the token loop (1-based index in tokens)
    gvtt_content,       \* generate_vtt's vtt_content: the document it builds
    wi,                 \* i of the cue loop: words[0:wi] are in cues
    gpc,                \* control point of generate_vtt
    \* format_vtt_timestamp
    ms,                 \* the argument: a time in milliseconds
    stamp,              \* the string format_vtt_timestamp returned
    fpc,                \* control point of format_vtt_timestamp
    \* get_transcript, get_transcript_vtt
    handler,            \* which of the two handlers serves the request
    db_id,              \* request.args.get('db_id')
    transcript_data,    \* res.json() of the provider's transcript
    requests,           \* history: the requests sent to the provider
    delete_raised,      \* whether session.delete raised
    db_update,          \* what became of the database update
    response,           \* the handler's response
    hpc,                \* control point of the handler
    \* sonox.py: main, poll_until_complete
    remote_status,      \* the status of the transcription at the provider
    status,             \* data["status"] of the last poll
    polls,              \* how many polls were made (counted up to MaxPolls)
    poll_result,        \* how poll_until_complete ended, if it has
    main_requests,      \* history: the requests of main outside the polling
    mpc                 \* control point of main

tvars == <<vtt_content, lines, translated_lines, chunks, ci, calls, sent,
           result, raised, tpc>>
gvars == <<tokens, words, current_word, current_start_ms, current_end_ms,
           ti, gvtt_content, wi, gpc>>
fvars == <<ms, stamp, fpc>>
hvars == <<handler, db_id, transcript_data, requests, delete_raised,
           db_update, response, hpc>>
pvars == <<remote_status, status, polls, poll_result, main_requests, mpc>>
vars == <<tvars, gvars, fvars, hvars, pvars>>

\* The state of the other functions, which a step of one leaves alone.
not_tvars == <<gvars, fvars, hvars, pvars>>
not_gvars == <<tvars, fvars, hvars, pvars>>
not_fvars == <<tvars, gvars, hvars, pvars>>
not_hvars == <<tvars, gvars, fvars, pvars>>
not_pvars == <<tvars, gvars, fvars, hvars>>

-----------------------------------------------------------------------------
(* Python string operations *)

\* Characters str.strip() removes (a sample of Python's whitespace).
Whitespace == {" ", "\t", "\n", "\r"}

RECURSIVE SkipLeft(_, _)
SkipLeft(s, i) ==
    IF i <= Len(s) /\ s[i] \in Whitespace THEN SkipLeft(s, i + 1) ELSE i

RECURSIVE SkipRight(_, _)
SkipRight(s, j) ==
    IF j >= 1 /\ s[j] \in Whitespace THEN SkipRight(s, j - 1) ELSE j

\* s.strip()
strip(s) == SubSeq(s, SkipLeft(s, 1), SkipRight(s, Len(s)))

\* s.startswith(p)
startswith(s, p) == Len(s) >= Len(p) /\ SubSeq(s, 1, Len(p)) = p

\* s.find(sub) + 1: the 1-based place of the first occurrence, 0 when absent
RECURSIVE FindFrom(_, _, _)
FindFrom(s, sub, i) ==
    IF i + Len(sub) - 1 > Len(s) THEN 0
    ELSE IF SubSeq(s, i, i + Len(sub) - 1) = sub THEN i
    ELSE FindFrom(s, sub, i + 1)

find(s, sub) == FindFrom(s, sub, 1)

\* sub in s
contains(s, sub) == find(s, sub) # 0

\* s.split(sep) for a one-character sep: one more part than separators.
\* The parts of s[lo..hi] are those of its two halves, the last part of the
\* left half and the first of the right half being one part.
RECURSIVE SplitRange(_, _, _, _)
SplitRange(s, sep, lo, hi) ==
    IF lo > hi THEN << <<>> >>
    ELSE IF lo = hi THEN IF s[lo] = sep THEN << <<>>, <<>> >> ELSE << <<s[lo]>> >>
    ELSE LET mid == (lo + hi) \div 2
             l   == SplitRange(s, sep, lo, mid)
             r   == SplitRange(s, sep, mid + 1, hi)
         IN  SubSeq(l, 1, Len(l) - 1) \o << l[Len(l)] \o r[1] >> \o Tail(r)

split(s, sep) == SplitRange(s, sep, 1, Len(s))

\* sep.join(parts)
RECURSIVE JoinRange(_, _, _, _)
JoinRange(sep, parts, lo, hi) ==
    IF lo > hi THEN <<>>
    ELSE IF lo = hi THEN parts[lo]
    ELSE LET mid == (lo + hi) \div 2
         IN  JoinRange(sep, parts, lo, mid) \o sep
                 \o JoinRange(sep, parts, mid + 1, hi)

join(sep, parts) == JoinRange(sep, parts, 1, Len(parts))

\* s.split(sep, 1)[1]: what follows the first occurrence of sep (sep in s)
AfterFirst(s, sep) == SubSeq(s, find(s, sep) + Len(sep), Len(s))

\* str(n) for n >= 0
Digit(d) == <<"0", "1", "2", "3", "4", "5", "6", "7", "8", "9">>[d + 1]

RECURSIVE str(_)
str(n) == IF n < 10 THEN <<Digit(n)>> ELSE Append(str(n \div 10), Digit(n % 10))

\* TRUE for every value. TLC evaluates a definition when its value is first
\* needed; a loop's range is folded half by half, and asking this of the
\* first half's result has it evaluated before the second half starts, so
\* that the pending evaluations never nest as deep as the loop is long.
Evaluated(x) == x = x

\* Python's None, for a time not yet set (times are >= 0)
None == -1

NL == <<"\n">>
WEBVTT == <<"W", "E", "B", "V", "T", "T">>
Arrow == <<"-", "-", ">">>
DotSpace == <<".", " ">>


-----------------------------------------------------------------------------
(* translate_vtt_content: the two grouping passes *)

\* chunk_size = 40: target lines per translation call
chunk_size == 40

EmptyGroup == [text_lines |-> <<>>, indices |-> <<>>]

\* The test of the first pass on a stripped line: empty, the header, or a
\* timestamp line. Such a line is skipped; every other line is subtitle text.
IsSkipped(line_stripped) ==
    \/ line_stripped = <<>>
    \/ line_stripped = WEBVTT
    \/ contains(line_stripped, Arrow)

\* "If we have accumulated text in current block, save it"; also the
\* "Don't forget the last ..." after either loop.
Saved(done, current) ==
    IF current.text_lines # <<>> THEN Append(done, current) ELSE done

\* Body of the first pass for the line at 0-based index i: st.done is
\* text_blocks, st.cur is current_block with current_block_indices.
ScanLine(ls, st, i) ==
    LET line_stripped == strip(ls[i + 1])
    IN  IF IsSkipped(line_stripped)
        THEN [done |-> Saved(st.done, st.cur), cur |-> EmptyGroup]
        ELSE [done |-> st.done,
              cur  |-> [text_lines |-> Append(st.cur.text_lines, line_stripped),
                        indices    |-> Append(st.cur.indices, i)]]

\* for i, line in enumerate(lines), for the indices lo..hi in order
RECURSIVE ScanRange(_, _, _, _)
ScanRange(ls, st, lo, hi) ==
    IF lo > hi THEN st
    ELSE IF lo = hi THEN ScanLine(ls, st, lo)
    ELSE LET mid == (lo + hi) \div 2
             st1 == ScanRange(ls, st, lo, mid)
         IN  IF Evaluated(st1) THEN ScanRange(ls, st1, mid + 1, hi) ELSE st

text_blocks(ls) ==
    LET st == ScanRange(ls, [done |-> <<>>, cur |-> EmptyGroup], 0, Len(ls) - 1)
    IN  Saved(st.done, st.cur)

\* A flush already when the threshold is reached, not only when exceeded.
StartsNewChunkAtThreshold(current_chunk, block) ==
    /\ Len(current_chunk.text_lines) + Len(block.text_lines) >= chunk_size
    /\ current_chunk.text_lines # <<>>

\* "If adding this block would exceed chunk size and we already have
\* content, start new chunk"
StartsNewChunk(current_chunk, block) ==
    /\ Len(current_chunk.text_lines) + Len(block.text_lines) > chunk_size
    /\ current_chunk.text_lines # <<>>

\* A flush that does not start from an empty chunk again.
AddBlockNoReset(st, block) ==
    LET flush == StartsNewChunk(st.cur, block)
    IN  [done |-> IF flush THEN Append(st.done, st.cur) ELSE st.done,
         cur  |-> [text_lines |-> st.cur.text_lines \o block.text_lines,
                   indices    |-> st.cur.indices \o block.indices]]

\* Body of the second pass: the block is appended whole to the current
\* chunk, after a flush when StartsNewChunk.
AddBlock(st, block) ==
    LET flush == StartsNewChunk(st.cur, block)
        base  == IF flush THEN EmptyGroup ELSE st.cur
    IN  [done |-> IF flush THEN Append(st.done, st.cur) ELSE st.done,
         cur  |-> [text_lines |-> base.text_lines \o block.text_lines,
                   indices    |-> base.indices \o block.indices]]

\* for block in text_blocks, for the blocks lo..hi in order
RECURSIVE GroupRange(_, _, _, _)
GroupRange(blocks, st, lo, hi) ==
    IF lo > hi THEN st
    ELSE IF lo = hi THEN AddBlock(st, blocks[lo])
    ELSE LET mid == (lo + hi) \div 2
             st1 == GroupRange(blocks, st, lo, mid)
         IN  IF Evaluated(st1) THEN GroupRange(blocks, st1, mid + 1, hi) ELSE st

BuildChunks(ls) ==
    LET blocks == text_blocks(ls)
        st == GroupRange(blocks, [done |-> <<>>, cur |-> EmptyGroup],
                         1, Len(blocks))
    IN  Saved(st.done, st.cur)

-----------------------------------------------------------------------------
(* translate_vtt_content: one chunk's translation *)

\* '\n'.join(f"{i+1}. {text}" for i, text in enumerate(chunk['text_lines']))
text_to_translate(chunk) ==
    join(NL, [i \in 1..Len(chunk.text_lines) |->
                 str(i) \o DotSpace \o chunk.text_lines[i]])

\* One returned line, stripped and not empty: what follows the first '. '
\* when there is one ("Remove the line number prefix"), else the line
\* itself ("Fallback if format is unexpected").
ParseLine(line) ==
    IF contains(line, DotSpace) THEN AfterFirst(line, DotSpace) ELSE line

\* Body of "for line in translated_chunk.split('\n')": empty lines are
\* passed over.
ParseStep(acc, part) ==
    LET line == strip(part)
    IN  IF line # <<>> THEN Append(acc, ParseLine(line)) ELSE acc

RECURSIVE ParseRange(_, _, _, _)
ParseRange(parts, acc, lo, hi) ==
    IF lo > hi THEN acc
    ELSE IF lo = hi THEN ParseStep(acc, parts[lo])
    ELSE LET mid == (lo + hi) \div 2
             acc1 == ParseRange(parts, acc, lo, mid)
         IN  IF Evaluated(acc1) THEN ParseRange(parts, acc1, mid + 1, hi) ELSE acc

translated_lines_chunk(translated_chunk) ==
    LET parts == split(translated_chunk, "\n")
    IN  ParseRange(parts, <<>>, 1, Len(parts))

\* A write that lands one line late.
WriteIndexOneLate(indices, i) == indices[i] + 2

\* The target of the i-th (1-based) write of a chunk: indices are 0-based
\* positions in lines, sequences here are 1-based.
WriteIndex(indices, i) == indices[i] + 1

\* Body of "for i, original_index in enumerate(chunk['indices'])"
WriteStep(tl, indices, got, i) ==
    IF i <= Len(got) THEN [tl EXCEPT ![WriteIndex(indices, i)] = got[i]]
    ELSE tl

RECURSIVE WriteRange(_, _, _, _, _)
WriteRange(tl, indices, got, lo, hi) ==
    IF lo > hi THEN tl
    ELSE IF lo = hi THEN WriteStep(tl, indices, got, lo)
    ELSE LET mid == (lo + hi) \div 2
             tl1 == WriteRange(tl, indices, got, lo, mid)
         IN  IF Evaluated(tl1) THEN WriteRange(tl1, indices, got, mid + 1, hi)
             ELSE tl

\* A copy that holds the stripped lines.
StrippedCopy(ls) == [i \in 1..Len(ls) |-> strip(ls[i])]

\* translated_lines = lines.copy()
CopyOfLines(ls) == ls

\* A failure that ends the loop.
StopAfterFailure(i, n) == n + 1

\* A failed call made again.
RetryAfterFailure(i, n) == i

\* The except clause only prints: the for loop goes on with the next of the
\* n chunks.
AfterFailure(i, n) == i + 1

\* "Update the translated_lines array at the correct indices"
WriteBack(tl, chunk, translated_chunk) ==
    WriteRange(tl, chunk.indices, translated_lines_chunk(translated_chunk),
               1, Len(chunk.indices))

-----------------------------------------------------------------------------
(* The documents translate_vtt_content is called with *)

MaxLines == 3
MaxBlocks == 3

\* Lines of the short documents: empty, blank, the header, a timestamp
\* line, and text lines (one padded with spaces, one holding '. ').
Stamp == <<"0", "-", "-", ">", "1">>
LineSet == { <<>>, <<" ">>, WEBVTT, Stamp,
             <<"a">>, <<" ", "b", " ">>, <<"c", ".", " ", "d">> }

ShortDocs ==
    { join(NL, ls) : ls \in UNION { [1..n -> LineSet] : n \in 1..MaxLines } }

\* Block sizes of the long documents, around chunk_size.
BlockSizes == {1, chunk_size - 1, chunk_size + 1}

Letter(i) == << <<"a">>, <<"b">>, <<"c">> >>[(i % 3) + 1]

\* header, blank, then per block: a timestamp line, its text lines, a blank
RECURSIVE LongLines(_, _, _)
LongLines(sizes, b, acc) ==
    IF b > Len(sizes) THEN acc
    ELSE LongLines(sizes, b + 1,
                   acc \o <<Stamp>>
                       \o [j \in 1..sizes[b] |-> Letter(Len(acc) + j)]
                       \o << <<>> >>)

LongDocs ==
    { join(NL, LongLines(sizes, 1, <<WEBVTT, <<>>>>)) :
        sizes \in UNION { [1..n -> BlockSizes] : n \in 1..MaxBlocks } }

-----------------------------------------------------------------------------
(* The translation capability: what translate_text_with_openai can return *)

\* A stand-in for the translation of one line.
Tr(text) == <<"t">> \o text

Numbered(texts, nums) ==
    join(NL, [i \in 1..Len(texts) |-> str(nums[i]) \o DotSpace \o texts[i]])

ReplyKinds == {"numbered", "short", "extra", "renumbered", "plain", "spaced",
               "header", "arrow", "empty"}

\* The message content the remote model sends back for a chunk's lines.
Content(kind, text_lines) ==
    LET m   == Len(text_lines)
        tr  == [i \in 1..m |-> Tr(text_lines[i])]
        one == [i \in 1..(m + 1) |-> i]
    IN  CASE kind = "numbered"   -> Numbered(tr, one)
          [] kind = "short"      -> Numbered(SubSeq(tr, 1, m - 1), one)
          [] kind = "extra"      -> Numbered(Append(tr, <<"z">>), one)
          [] kind = "renumbered" -> Numbered(tr, [i \in 1..m |-> m + 1 - i])
          [] kind = "plain"      -> join(NL, tr)
          [] kind = "spaced"     ->
                 <<" ">> \o join(<<" ", "\n", "\n", " ">>,
                                 [i \in 1..m |-> str(i) \o DotSpace \o tr[i]])
                         \o <<"\n">>
          [] kind = "header"     -> Numbered([tr EXCEPT ![1] = WEBVTT], one)
          [] kind = "arrow"      -> Numbered([tr EXCEPT ![1] = Stamp], one)
          [] kind = "empty"      -> <<>>

\* Long chunks get the well-formed replies only.
KindsFor(chunk) ==
    IF Len(chunk.text_lines) <= MaxLines THEN ReplyKinds
    ELSE {"numbered", "short"}

\* translate_text_with_openai returns response...content.strip()
translate_text_with_openai(content) == strip(content)

-----------------------------------------------------------------------------
(* translate_vtt_content as a state machine *)

\* translate_vtt_content is not running
TranslateIdle ==
    /\ vtt_content = <<>>
    /\ lines = <<>>
    /\ translated_lines = <<>>
    /\ chunks = <<>>
    /\ ci = 0
    /\ calls = <<>>
    /\ sent = <<>>
    /\ result = <<>>
    /\ raised = FALSE
    /\ tpc = "idle"

\* generate_vtt is not running
GenIdle ==
    /\ tokens = <<>>
    /\ words = <<>>
    /\ current_word = <<>>
    /\ current_start_ms = None
    /\ current_end_ms = None
    /\ ti = 0
    /\ gvtt_content = <<>>
    /\ wi = 0
    /\ gpc = "idle"

\* format_vtt_timestamp is not running
FormatIdle ==
    /\ ms = 0
    /\ stamp = <<>>
    /\ fpc = "idle"

\* request.args.get('db_id') without the argument: None
NoArgument == [given |-> FALSE, text |-> <<>>]

\* transcript_data before res.json() returned
NoTranscript == [parsed |-> FALSE, has_text |-> FALSE, tokens_ok |-> FALSE]

\* The handler has not returned
NoResponse == [status |-> 0, body |-> "none"]

\* No request is being served
HandlerIdle ==
    /\ handler = "none"
    /\ db_id = NoArgument
    /\ transcript_data = NoTranscript
    /\ requests = <<>>
    /\ delete_raised = FALSE
    /\ db_update = "none"
    /\ response = NoResponse
    /\ hpc = "idle"

\* sonox.py is not running
PollIdle ==
    /\ remote_status = "none"
    /\ status = "none"
    /\ polls = 0
    /\ poll_result = "none"
    /\ main_requests = <<>>
    /\ mpc = "idle"

InitT ==
    /\ vtt_content \in ShortDocs \cup LongDocs
    /\ lines = <<>>
    /\ translated_lines = <<>>
    /\ chunks = <<>>
    /\ ci = 0
    /\ calls = <<>>
    /\ sent = <<>>
    /\ result = <<>>
    /\ raised = FALSE
    /\ tpc = "call"
    /\ GenIdle
    /\ FormatIdle
    /\ HandlerIdle
    /\ PollIdle

\* if not vtt_content or not vtt_content.strip(): return ""
ReturnEmpty ==
    /\ tpc = "call"
    /\ strip(vtt_content) = <<>>
    /\ result' = <<>>
    /\ tpc' = "done"
    /\ UNCHANGED <<vtt_content, lines, translated_lines, chunks, ci, calls,
                   sent, raised>>
    /\ UNCHANGED not_tvars

\* split, copy, and the two grouping passes
Prepare ==
    /\ tpc = "call"
    /\ strip(vtt_content) # <<>>
    /\ lines' = split(vtt_content, "\n")
    /\ translated_lines' = CopyOfLines(lines')
    /\ chunks' = BuildChunks(lines')
    /\ ci' = 1
    /\ tpc' = "loop"
    /\ UNCHANGED <<vtt_content, calls, sent, result, raised>>
    /\ UNCHANGED not_tvars

\* One pass of "for chunk in chunks" whose call returns.
TranslateChunk ==
    /\ tpc = "loop"
    /\ ci <= Len(chunks)
    /\ \E kind \in KindsFor(chunks[ci]) :
         LET translated_chunk ==
                 translate_text_with_openai(Content(kind, chunks[ci].text_lines))
         IN  /\ sent' = text_to_translate(chunks[ci])
             /\ translated_lines' =
                    WriteBack(translated_lines, chunks[ci], translated_chunk)
             /\ calls' = Append(calls, [chunk |-> ci, ok |-> TRUE,
                                        reply |-> translated_chunk])
    /\ ci' = ci + 1
    /\ UNCHANGED <<vtt_content, lines, chunks, result, raised, tpc>>
    /\ UNCHANGED not_tvars

\* One pass whose call raises: "except Exception" keeps the original text.
TranslateFails ==
    /\ tpc = "loop"
    /\ ci <= Len(chunks)
    /\ sent' = text_to_translate(chunks[ci])
    /\ calls' = Append(calls, [chunk |-> ci, ok |-> FALSE, reply |-> <<>>])
    /\ ci' = AfterFailure(ci, Len(chunks))
    /\ UNCHANGED <<vtt_content, lines, translated_lines, chunks, result,
                   raised, tpc>>
    /\ UNCHANGED not_tvars

\* return '\n'.join(translated_lines)
Return ==
    /\ tpc = "loop"
    /\ ci > Len(chunks)
    /\ result' = join(NL, translated_lines)
    /\ tpc' = "done"
    /\ UNCHANGED <<vtt_content, lines, translated_lines, chunks, ci, calls,
                   sent, raised>>
    /\ UNCHANGED not_tvars

NextT == ReturnEmpty \/ Prepare \/ TranslateChunk \/ TranslateFails \/ Return

SpecTranslate == InitT /\ [][NextT]_vars

\* The short documents without a text line
NoTextDocs == { d \in ShortDocs : text_blocks(split(d, "\n")) = <<>> }

\* translate_vtt_content on the documents of one to MaxBlocks blocks, which
\* make up to MaxBlocks chunks, and on the documents without a text line
InitChunks ==
    /\ vtt_content \in LongDocs \cup NoTextDocs
    /\ lines = <<>>
    /\ translated_lines = <<>>
    /\ chunks = <<>>
    /\ ci = 0
    /\ calls = <<>>
    /\ sent = <<>>
    /\ result = <<>>
    /\ raised = FALSE
    /\ tpc = "call"
    /\ GenIdle
    /\ FormatIdle
    /\ HandlerIdle
    /\ PollIdle

SpecTranslateChunks == InitChunks /\ [][NextT]_vars

-----------------------------------------------------------------------------
(* Properties of translate_vtt_content *)

InputLines == split(vtt_content, "\n")
OutputLines == split(result, "\n")

\* A line the first pass skips: blank, the header or a timestamp line.
IsNonTextLine(line) == IsSkipped(strip(line))

NonTextLines(ls) == SelectSeq(ls, IsNonTextLine)

\* The document holds something else than whitespace.
NotBlank == strip(vtt_content) # <<>>

\* The document begins with the header line.
StartsWithHeader == InputLines[1] = WEBVTT

Returned == tpc = "done" /\ NotBlank

\* The lines of a reply as the parse loop sees them: stripped, not empty.
ReplyLines(reply) ==
    LET parts == split(reply, "\n")
    IN  SelectSeq([i \in 1..Len(parts) |-> strip(parts[i])],
                  LAMBDA l : l # <<>>)

Digits == {"0", "1", "2", "3", "4", "5", "6", "7", "8", "9"}

RECURSIVE LeadingDigits(_, _)
LeadingDigits(line, n) ==
    IF n < Len(line) /\ line[n + 1] \in Digits THEN LeadingDigits(line, n + 1)
    ELSE n

\* A returned line without its leading "<n>. " numbering token, when it
\* has one.
WithoutNumber(line) ==
    LET d == LeadingDigits(line, 0)
    IN  IF d >= 1 /\ SubSeq(line, d + 1, d + 2) = DotSpace
        THEN SubSeq(line, d + 3, Len(line))
        ELSE line

\* C1, as claimed: for a subtitle document and any reply of the translator,
\* the output has the same non-text lines (header, blank, timestamp), in
\* count and order, as the input, and only lines that were text lines in the
\* input differ.
C1_NonTextLinesKept ==
    (tpc = "done" /\ StartsWithHeader) =>
        LET in  == InputLines
            out == OutputLines
        IN  /\ NonTextLines(out) = NonTextLines(in)
            /\ Len(out) = Len(in)
            /\ \A i \in 1..Len(in) : out[i] # in[i] => ~IsNonTextLine(in[i])

\* C1, amended: for a document that is not blank, the output has as many
\* lines as the input, every line that is a non-text line in the input is
\* the same line at the same index in the output, and a line written in
\* place of a text line is never blank (it may read as a header or a
\* timestamp line when the translator returns such text).
C1_NonTextPositionsKept ==
    Returned =>
        LET in  == InputLines
            out == OutputLines
        IN  /\ Len(out) = Len(in)
            /\ \A i \in 1..Len(in) :
                 IF IsNonTextLine(in[i]) THEN out[i] = in[i]
                 ELSE strip(out[i]) # <<>>

\* A returned document with a timestamp line kept and a text line replaced.
C1_Witness ==
    /\ Returned
    /\ LET in  == InputLines
           out == OutputLines
       IN  /\ \E i \in 1..Len(in) : in[i] = Stamp
           /\ \E i \in 1..Len(in) : out[i] # in[i]

\* C2: for a document that is not blank, when the call for a chunk fails,
\* every line of that chunk keeps its original text in the output, nothing
\* is raised to the caller, and every chunk is sent, in order, whatever
\* became of the others; the lines a successful call returned are in the
\* output at the chunk's positions.
C2_FailureIsolated ==
    Returned =>
        LET in  == InputLines
            out == OutputLines
        IN  /\ ~raised
            /\ Len(calls) = Len(chunks)
            /\ \A k \in 1..Len(calls) :
                 LET idx == chunks[k].indices
                     got == ReplyLines(calls[k].reply)
                 IN  /\ calls[k].chunk = k
                     /\ ~calls[k].ok =>
                          \A i \in 1..Len(idx) : out[idx[i] + 1] = in[idx[i] + 1]
                     /\ calls[k].ok =>
                          \A i \in 1..Len(idx) :
                              i <= Len(got) =>
                                \E j \in 1..Len(got[i]) :
                                    out[idx[i] + 1] = SubSeq(got[i], j, Len(got[i]))

\* A failed call followed by a call whose lines were written.
C2_Witness ==
    /\ Returned
    /\ LET in  == InputLines
           out == OutputLines
       IN  \E j, k \in 1..Len(calls) :
             /\ j < k
             /\ ~calls[j].ok
             /\ calls[k].ok
             /\ \E i \in 1..Len(chunks[k].indices) :
                  out[chunks[k].indices[i] + 1] # in[chunks[k].indices[i] + 1]

\* C3, as claimed: the i-th line a call returned, without its leading
\* "<n>. " numbering token, is at the chunk's i-th position, whatever the
\* number; with fewer returned lines than positions the others keep their
\* text.
C3_ReturnedLinesByIndex ==
    Returned =>
        LET in  == InputLines
            out == OutputLines
        IN  \A k \in 1..Len(calls) :
              calls[k].ok =>
                LET idx == chunks[k].indices
                    got == ReplyLines(calls[k].reply)
                IN  \A i \in 1..Len(idx) :
                        out[idx[i] + 1] =
                            IF i <= Len(got) THEN WithoutNumber(got[i])
                            ELSE in[idx[i] + 1]

\* The 0-based indices of the text lines of the document.
TextIndices ==
    { i \in 0..(Len(lines) - 1) : ~IsNonTextLine(lines[i + 1]) }

RECURSIVE AllIndices(_, _)
AllIndices(cs, k) ==
    IF k > Len(cs) THEN <<>> ELSE cs[k].indices \o AllIndices(cs, k + 1)

\* C4: the chunks partition the text lines: their indices, chunk after
\* chunk, are the indices of the text lines in increasing order, each once,
\* and in every chunk text_lines[i] is the stripped line at indices[i].
C4_ChunksPartition ==
    tpc \in {"loop", "done"} /\ NotBlank =>
        LET all == AllIndices(chunks, 1)
        IN  /\ { all[j] : j \in 1..Len(all) } = TextIndices
            /\ \A j \in 1..(Len(all) - 1) : all[j] < all[j + 1]
            /\ \A k \in 1..Len(chunks) :
                 /\ Len(chunks[k].text_lines) = Len(chunks[k].indices)
                 /\ chunks[k].indices # <<>>
                 /\ \A i \in 1..Len(chunks[k].indices) :
                      chunks[k].text_lines[i]
                          = strip(lines[chunks[k].indices[i] + 1])

\* Several chunks, one of them of lines that are not adjacent.
C4_Witness ==
    /\ tpc = "loop"
    /\ Len(chunks) >= 2
    /\ \E k \in 1..Len(chunks) : \E i \in 1..(Len(chunks[k].indices) - 1) :
         chunks[k].indices[i + 1] > chunks[k].indices[i] + 1

\* The indices are those of adjacent lines: one block.
OneBlock(idx) == \A i \in 1..(Len(idx) - 1) : idx[i + 1] = idx[i] + 1

\* The length of the first block of a chunk.
RECURSIVE FirstBlockLen(_, _)
FirstBlockLen(idx, n) ==
    IF n < Len(idx) /\ idx[n + 1] = idx[n] + 1 THEN FirstBlockLen(idx, n + 1)
    ELSE n

\* C5, as claimed: no chunk holds more than chunk_size lines.
C5_NoChunkOverThreshold ==
    \A k \in 1..Len(chunks) : Len(chunks[k].text_lines) <= chunk_size

\* C5, amended: chunks are built greedily block by block, a block being a
\* run of adjacent text lines: a chunk ends before the block that would
\* take it over chunk_size, no block is divided between chunks, and a chunk
\* holds more than chunk_size lines only when it is one block.
C5_GreedyByBlock ==
    /\ \A k \in 1..Len(chunks) :
         Len(chunks[k].text_lines) > chunk_size => OneBlock(chunks[k].indices)
    /\ \A k \in 1..(Len(chunks) - 1) :
         LET a == chunks[k].indices
             b == chunks[k + 1].indices
         IN  /\ b[1] > a[Len(a)] + 1
             /\ Len(a) + FirstBlockLen(b, 1) > chunk_size

\* A chunk over the threshold after a chunk that was flushed before it.
C5_Witness ==
    /\ Len(chunks) >= 2
    /\ Len(chunks[2].text_lines) > chunk_size
    /\ Len(chunks[1].text_lines) < chunk_size

\* The number of text lines among ls.
TextLineCount(ls) ==
    Cardinality({ i \in 1..Len(ls) : ~IsNonTextLine(ls[i]) })

\* C6: for a subtitle document (here: any document that is not blank), when
\* the call fails for every chunk, the returned document is the input,
\* character for character; a document of 3 text lines is one chunk.
C6_AllFailedIsIdentity ==
    Returned =>
        /\ (\A k \in 1..Len(calls) : ~calls[k].ok) => result = vtt_content
        /\ TextLineCount(lines) = 3 => Len(chunks) = 1

\* Three text lines, one of them padded, in one chunk whose call failed.
C6_Witness ==
    /\ Returned
    /\ TextLineCount(lines) = 3
    /\ Len(calls) = 1
    /\ ~calls[1].ok
    /\ \E i \in 1..Len(lines) :
         ~IsNonTextLine(lines[i]) /\ strip(lines[i]) # lines[i]
    /\ result = vtt_content

\* translated_lines after the first k calls: the copy of the lines with the
\* replies of the answered calls written, chunk by chunk.
RECURSIVE Written(_, _, _, _)
Written(ls, cs, history, k) ==
    IF k = 0 THEN CopyOfLines(ls)
    ELSE LET before == Written(ls, cs, history, k - 1)
         IN  IF history[k].ok
             THEN WriteBack(before, cs[k], history[k].reply)
             ELSE before

\* The chunks are in document order: every line of a chunk is above every
\* line of the next.
InDocumentOrder(cs) ==
    \A k \in 1..(Len(cs) - 1) :
        cs[k].indices[Len(cs[k].indices)] < cs[k + 1].indices[1]

\* C13: translate_text_with_openai is called once per chunk, a failed call
\* not made again and no call made for a document without text lines; the
\* k-th call is for the k-th chunk in document order, and when a chunk is
\* sent the replies to all chunks before it are written to the output.
C13_OneCallPerChunkInOrder ==
    tpc \in {"loop", "done"} =>
        /\ InDocumentOrder(chunks)
        /\ \A k \in 1..Len(calls) : calls[k].chunk = k
        /\ tpc = "loop" => Len(calls) = ci - 1
        /\ tpc = "done" => Len(calls) = Len(chunks)
        /\ chunks = <<>> => calls = <<>>
        /\ sent = IF calls = <<>> THEN <<>>
                  ELSE text_to_translate(chunks[Len(calls)])
        /\ translated_lines = Written(lines, chunks, calls, Len(calls))

\* Three chunks, the second call failed, the third written.
C13_Witness ==
    /\ tpc = "done"
    /\ Len(calls) = 3
    /\ calls[1].ok /\ ~calls[2].ok /\ calls[3].ok
    /\ translated_lines # Written(lines, chunks, calls, 2)

-----------------------------------------------------------------------------
(* format_vtt_timestamp *)

\* seconds = ms / 1000 is a real number: it is held here as its whole part
\* and its thousandths, on which //, % and the three decimals of the
\* rendering are exact. (The double Python holds renders the same digits for
\* every ms of the ranges below.)
seconds_of(m) == [whole |-> m \div 1000, thousandths |-> m % 1000]

\* The minutes without the reduction to the hour.
MinutesOfAllSeconds(seconds) == seconds.whole \div 60

\* hours = int(seconds // 3600)
hours_of(seconds) == seconds.whole \div 3600

\* minutes = int((seconds % 3600) // 60)
minutes_of(seconds) == (seconds.whole % 3600) \div 60

\* secs = seconds % 60
secs_of(seconds) ==
    [whole |-> seconds.whole % 60, thousandths |-> seconds.thousandths]

\* Zero padding on the left to a width: the "0w" of a format specification
RECURSIVE ZeroPad(_, _)
ZeroPad(digits, width) ==
    IF Len(digits) >= width THEN digits
    ELSE ZeroPad(<<"0">> \o digits, width)

\* f"{n:02d}"
Format02d(n) == ZeroPad(str(n), 2)

\* f"{x:06.3f}": three decimals, six characters at least
Format06_3f(x) ==
    ZeroPad(str(x.whole) \o <<".">> \o ZeroPad(str(x.thousandths), 3), 6)

\* return f"{hours:02d}:{minutes:02d}:{secs:06.3f}"
format_vtt_timestamp(m) ==
    LET seconds == seconds_of(m)
    IN  Format02d(hours_of(seconds)) \o <<":">>
          \o Format02d(minutes_of(seconds)) \o <<":">>
          \o Format06_3f(secs_of(seconds))

\* Inputs: times around each unit's carry, up to MaxHours hours
MaxHours == 100

HourSet == {0, 1, 9, 10, 25, 99, MaxHours}
MinuteSet == {0, 1, 59}
SecondSet == {0, 1, 59}
MilliSet == {0, 1, 500, 999}

Milliseconds ==
    { h * 3600000 + mi * 60000 + sec * 1000 + f :
        h \in HourSet, mi \in MinuteSet, sec \in SecondSet, f \in MilliSet }

InitF ==
    /\ ms \in Milliseconds
    /\ stamp = <<>>
    /\ fpc = "call"
    /\ TranslateIdle
    /\ GenIdle
    /\ HandlerIdle
    /\ PollIdle

\* One call of format_vtt_timestamp(ms)
Format ==
    /\ fpc = "call"
    /\ stamp' = format_vtt_timestamp(ms)
    /\ fpc' = "done"
    /\ UNCHANGED ms
    /\ UNCHANGED not_fvars

NextF == Format

SpecFormat == InitF /\ [][NextF]_vars

\* The digits of n < 100, two of them
TwoDigits(n) == <<Digit(n \div 10), Digit(n % 10)>>

\* The digits of n < 1000, three of them
ThreeDigits(n) == <<Digit(n \div 100)>> \o TwoDigits(n % 100)

\* HH:MM:SS.mmm of a time, the hours not reduced to the day
Rendering(m) ==
    LET hh == m \div 3600000
    IN  (IF hh < 100 THEN TwoDigits(hh) ELSE str(hh)) \o <<":">>
          \o TwoDigits((m \div 60000) % 60) \o <<":">>
          \o TwoDigits((m \div 1000) % 60) \o <<".">>
          \o ThreeDigits(m % 1000)

\* C12: format_vtt_timestamp(ms) is HH:MM:SS.mmm with hours = ms div 3600000
\* in two digits or more, minutes = (ms div 60000) mod 60 and seconds =
\* (ms div 1000) mod 60 in two digits, milliseconds = ms mod 1000 in three;
\* 90061500 gives "25:01:01.500" and 500 gives "00:00:00.500".
C12_TimestampRendering ==
    fpc = "done" =>
        /\ stamp = Rendering(ms)
        /\ Len(stamp) >= 12
        /\ ms = 90061500 =>
             stamp = <<"2", "5", ":", "0", "1", ":", "0", "1", ".", "5", "0", "0">>
        /\ ms = 500 =>
             stamp = <<"0", "0", ":", "0", "0", ":", "0", "0", ".", "5", "0", "0">>

\* A time over a day, every unit carried into.
C12_Witness ==
    /\ fpc = "done"
    /\ ms = 90061500
    /\ stamp = <<"2", "5", ":", "0", "1", ":", "0", "1", ".", "5", "0", "0">>

-----------------------------------------------------------------------------
(* generate_vtt: reconstruction of words from token fragments *)

MaxTokens == 3

\* Token texts: a fragment, a fragment with the leading space that marks a
\* new word, a space alone, a tab alone, a fragment led by a tab, a fragment
\* that ends in a space.
TokenTexts == { <<"i">>, <<" ", "t">>, <<" ">>, <<"\t">>, <<"\t", "x">>,
                <<"b", " ">> }

\* (start_ms, end_ms) of a token as the provider may send them
TokenTimes == { <<0, 1>>, <<1, 2>>, <<2, 1>> }

Tokens ==
    { [text |-> x, start_ms |-> t[1], end_ms |-> t[2]] :
        x \in TokenTexts, t \in TokenTimes }

\* The fragments "H", "i", " there" of one utterance
HiThere ==
    << [text |-> <<"H">>, start_ms |-> 0, end_ms |-> 100],
       [text |-> <<"i">>, start_ms |-> 100, end_ms |-> 200],
       [text |-> <<" ", "t", "h", "e", "r", "e">>,
        start_ms |-> 200, end_ms |-> 400] >>

\* words_per_chunk = 6  # Number of complete words per subtitle
words_per_chunk == 6

\* Word counts at and around the chunk size: one full cue, a full cue and a
\* word, two full cues, two full cues and a word.
WordCounts == { words_per_chunk, words_per_chunk + 1,
                2 * words_per_chunk, 2 * words_per_chunk + 1 }

\* n one-token words of an utterance, 700 ms apart, 600 ms long
Utterance(n) ==
    [j \in 1..n |-> [text     |-> <<" ">> \o Letter(j),
                     start_ms |-> (j - 1) * 700,
                     end_ms   |-> (j - 1) * 700 + 600]]

LongTokenLists == { Utterance(n) : n \in WordCounts }

TokenLists ==
    UNION { [1..n -> Tokens] : n \in 0..MaxTokens } \cup {HiThere}
      \cup LongTokenLists

InitG ==
    /\ tokens \in TokenLists
    /\ words = <<>>
    /\ current_word = <<>>
    /\ current_start_ms = None
    /\ current_end_ms = None
    /\ ti = 0
    /\ gvtt_content = <<>>
    /\ wi = 0
    /\ gpc = "call"
    /\ TranslateIdle
    /\ FormatIdle
    /\ HandlerIdle
    /\ PollIdle

\* A test for any leading whitespace character.
IsNewWordAnyWhitespace(token_text, word) ==
    (token_text # <<>> /\ token_text[1] \in Whitespace) \/ word = <<>>

\* "If token starts with a space or is the first token, it's a new word"
IsNewWord(token_text, word) ==
    startswith(token_text, <<" ">>) \/ word = <<>>

\* A save with the two times exchanged.
SaveWordSwapped(ws, word, start_ms, end_ms) ==
    IF word # <<>>
    THEN Append(ws, [text |-> word, start_ms |-> end_ms, end_ms |-> start_ms])
    ELSE ws

\* A save without the test of the accumulator.
SaveWordAlways(ws, word, start_ms, end_ms) ==
    Append(ws, [text |-> word, start_ms |-> start_ms, end_ms |-> end_ms])

\* "Save previous word if exists" and "Don't forget the last word":
\* if current_word: words.append({...})
SaveWord(ws, word, start_ms, end_ms) ==
    IF word # <<>>
    THEN Append(ws, [text |-> word, start_ms |-> start_ms, end_ms |-> end_ms])
    ELSE ws

\* A new word that keeps the token's text as it is.
NewWordTextVerbatim(token_text) == token_text

\* current_word = token_text.strip()
NewWordText(token_text) == strip(token_text)

\* current_word += token_text
ContinuedText(word, token_text) == word \o token_text

Min(a, b) == IF a <= b THEN a ELSE b

\* vtt_content = "WEBVTT\n\n"
Header == WEBVTT \o NL \o NL

\* A slice that takes one word more.
ChunkOneMore(ws, i) ==
    SubSeq(ws, i + 1, Min(i + words_per_chunk + 1, Len(ws)))

\* chunk = words[i:i + words_per_chunk], i counted from 0
Chunk(ws, i) == SubSeq(ws, i + 1, Min(i + words_per_chunk, Len(ws)))

\* text = ' '.join(word['text'] for word in chunk)
CueText(chunk) == join(<<" ">>, [k \in 1..Len(chunk) |-> chunk[k].text])

\* f"{start_time} --> {end_time}\n{text}\n\n" of a chunk, with
\* start_ms = chunk[0]['start_ms'] and end_ms = chunk[-1]['end_ms']
Cue(chunk) ==
    LET start_ms == chunk[1].start_ms
        end_ms   == chunk[Len(chunk)].end_ms
        start_time == format_vtt_timestamp(start_ms)
        end_time   == format_vtt_timestamp(end_ms)
    IN  start_time \o <<" ">> \o Arrow \o <<" ">> \o end_time \o NL
          \o CueText(chunk) \o NL \o NL

\* One pass of the cue loop: "if not chunk: continue", else the cue is added
WithCue(content, chunk) ==
    IF chunk = <<>> THEN content ELSE content \o Cue(chunk)

\* if not tokens: return vtt_content
NoTokens ==
    /\ gpc = "call"
    /\ tokens = <<>>
    /\ gvtt_content' = Header
    /\ gpc' = "done"
    /\ UNCHANGED <<tokens, words, current_word, current_start_ms,
                   current_end_ms, ti, wi>>
    /\ UNCHANGED not_gvars

BeginWords ==
    /\ gpc = "call"
    /\ tokens # <<>>
    /\ gvtt_content' = Header
    /\ ti' = 1
    /\ gpc' = "tokens"
    /\ UNCHANGED <<tokens, words, current_word, current_start_ms,
                   current_end_ms, wi>>
    /\ UNCHANGED not_gvars

\* The loop body's first branch: the accumulator is saved, a word started.
StartWord ==
    /\ gpc = "tokens"
    /\ ti <= Len(tokens)
    /\ IsNewWord(tokens[ti].text, current_word)
    /\ words' = SaveWord(words, current_word, current_start_ms, current_end_ms)
    /\ current_word' = NewWordText(tokens[ti].text)
    /\ current_start_ms' = tokens[ti].start_ms
    /\ current_end_ms' = tokens[ti].end_ms
    /\ ti' = ti + 1
    /\ UNCHANGED <<tokens, gvtt_content, wi, gpc>>
    /\ UNCHANGED not_gvars

\* The loop body's else branch: "Continue building current word"
ContinueWord ==
    /\ gpc = "tokens"
    /\ ti <= Len(tokens)
    /\ ~IsNewWord(tokens[ti].text, current_word)
    /\ current_word' = ContinuedText(current_word, tokens[ti].text)
    /\ current_end_ms' = tokens[ti].end_ms
    /\ ti' = ti + 1
    /\ UNCHANGED <<tokens, words, current_start_ms, gvtt_content, wi, gpc>>
    /\ UNCHANGED not_gvars

\* After the loop: "Don't forget the last word"
LastWord ==
    /\ gpc = "tokens"
    /\ ti > Len(tokens)
    /\ words' = SaveWord(words, current_word, current_start_ms, current_end_ms)
    /\ wi' = 0
    /\ gpc' = "cues"
    /\ UNCHANGED <<tokens, current_word, current_start_ms, current_end_ms, ti,
                   gvtt_content>>
    /\ UNCHANGED not_gvars

\* One pass of "for i in range(0, len(words), words_per_chunk)"
AppendCue ==
    /\ gpc = "cues"
    /\ wi < Len(words)
    /\ gvtt_content' = WithCue(gvtt_content, Chunk(words, wi))
    /\ wi' = wi + words_per_chunk
    /\ UNCHANGED <<tokens, words, current_word, current_start_ms,
                   current_end_ms, ti, gpc>>
    /\ UNCHANGED not_gvars

\* return vtt_content
ReturnVtt ==
    /\ gpc = "cues"
    /\ wi >= Len(words)
    /\ gpc' = "done"
    /\ UNCHANGED <<tokens, words, current_word, current_start_ms,
                   current_end_ms, ti, gvtt_content, wi>>
    /\ UNCHANGED not_gvars

NextG ==
    \/ NoTokens \/ BeginWords \/ StartWord \/ ContinueWord \/ LastWord
    \/ AppendCue \/ ReturnVtt

SpecGen == InitG /\ [][NextG]_vars

-----------------------------------------------------------------------------
(* Properties of the word reconstruction *)

\* The text begins a word by its first character: a space, or with anyws
\* any whitespace character.
Leads(text, anyws) ==
    IF anyws THEN text # <<>> /\ text[1] \in Whitespace
    ELSE startswith(text, <<" ">>)

\* Token i opens a word: it leads one, or the accumulator is empty (it is
\* the first token, or the token before it opened a word with a blank text).
RECURSIVE OpensWord(_, _, _)
OpensWord(toks, i, anyws) ==
    \/ i = 1
    \/ Leads(toks[i].text, anyws)
    \/ OpensWord(toks, i - 1, anyws) /\ strip(toks[i - 1].text) = <<>>

\* The tokens that open a word, in order.
Openers(toks, anyws) ==
    SelectSeq([i \in 1..Len(toks) |-> i], LAMBDA i : OpensWord(toks, i, anyws))

\* The tokens of each word: from an opener to the token before the next.
Segments(toks, anyws) ==
    LET o == Openers(toks, anyws)
    IN  [k \in 1..Len(o) |->
            [first |-> o[k],
             last  |-> IF k < Len(o) THEN o[k + 1] - 1 ELSE Len(toks)]]

RECURSIVE Verbatim(_, _, _)
Verbatim(toks, a, b) ==
    IF a > b THEN <<>> ELSE toks[a].text \o Verbatim(toks, a + 1, b)

\* The word of a segment: the opener's text trimmed, then the texts of the
\* tokens that continue it; the opener's start, the last token's end.
SegmentWord(toks, g) ==
    [text     |-> strip(toks[g.first].text) \o Verbatim(toks, g.first + 1, g.last),
     start_ms |-> toks[g.first].start_ms,
     end_ms   |-> toks[g.last].end_ms]

\* The segments whose word is not the empty string.
WordSegments(toks, anyws) ==
    SelectSeq(Segments(toks, anyws), LAMBDA g : SegmentWord(toks, g).text # <<>>)

\* The words of the merge rule.
MergedWords(toks, anyws) ==
    LET gs == WordSegments(toks, anyws)
    IN  [k \in 1..Len(gs) |-> SegmentWord(toks, gs[k])]

WordsBuilt == gpc = "cues"

\* Every token starts no later than it ends, and no token starts before
\* the token ahead of it.
Chronological(toks) ==
    /\ \A i \in 1..Len(toks) : toks[i].start_ms <= toks[i].end_ms
    /\ \A i \in 1..(Len(toks) - 1) : toks[i].start_ms <= toks[i + 1].start_ms

\* C7, as claimed: for all token sequences there are at most as many words
\* as tokens and every word has start_ms <= end_ms.
C7_WordsWithinTokens ==
    /\ Len(words) <= Len(tokens)
    /\ \A k \in 1..Len(words) : words[k].start_ms <= words[k].end_ms

\* C7, amended: there are at most as many words as tokens; every word has
\* start_ms <= end_ms when the tokens are chronological.
C7_WordsWithinChronologicalTokens ==
    /\ Len(words) <= Len(tokens)
    /\ Chronological(tokens) =>
         \A k \in 1..Len(words) : words[k].start_ms <= words[k].end_ms

\* Chronological tokens merged into fewer words, one over two tokens' times.
C7_Witness ==
    /\ WordsBuilt
    /\ Chronological(tokens)
    /\ 1 <= Len(words) /\ Len(words) < Len(tokens)
    /\ \E k \in 1..Len(words) : words[k].start_ms = 0 /\ words[k].end_ms = 2

\* C8, as claimed: a token of whitespace only gives an empty-string word
\* with the token's times, and the word list holds it.
C8_BlankTokenWordKept ==
    WordsBuilt =>
        \A i \in 1..Len(tokens) :
            strip(tokens[i].text) = <<>> =>
              \E k \in 1..Len(words) :
                  words[k] = [text     |-> <<>>,
                              start_ms |-> tokens[i].start_ms,
                              end_ms   |-> tokens[i].end_ms]

\* C8, amended: no word of the list is the empty string, and there are at
\* most as many words as tokens that are not blank: a token of whitespace
\* only never gives a word of its own, and its times are in no word that it
\* opened.
C8_BlankTokenWordDropped ==
    /\ \A k \in 1..Len(words) : words[k].text # <<>>
    /\ WordsBuilt =>
         Len(words) <= Cardinality({ i \in 1..Len(tokens) :
                                       strip(tokens[i].text) # <<>> })

\* A space alone between two words.
C8_Witness ==
    /\ WordsBuilt
    /\ Len(tokens) = 3
    /\ tokens[2].text = <<" ">>
    /\ Len(words) = 2

\* The words of "H", "i", " there"
HiThereWords ==
    << [text |-> <<"H", "i">>, start_ms |-> 0, end_ms |-> 200],
       [text |-> <<"t", "h", "e", "r", "e">>, start_ms |-> 200, end_ms |-> 400] >>

\* C9, as claimed: a word opens at each token that starts with a whitespace
\* character or meets an empty accumulator; its text is that token's trimmed
\* text and the verbatim texts of the tokens that continue it, its start the
\* opener's, its end the last token's.
C9_MergeRuleAnyWhitespace ==
    WordsBuilt =>
        /\ words = MergedWords(tokens, TRUE)
        /\ tokens = HiThere => words = HiThereWords

\* C9, amended: as claimed, with "starts with a space character" for
\* "starts with a whitespace character" (a token led by a tab continues the
\* word), a word of empty text not being listed.
C9_MergeRuleSpace ==
    WordsBuilt =>
        /\ words = MergedWords(tokens, FALSE)
        /\ tokens = HiThere => words = HiThereWords

\* A token led by a tab has continued a word.
C9_Witness ==
    /\ WordsBuilt
    /\ \E k \in 1..Len(words) :
         /\ Len(words[k].text) >= 3
         /\ words[k].text[2] = "\t"
         /\ words[k].start_ms < words[k].end_ms

EndsInWhitespace(text) == text # <<>> /\ text[Len(text)] \in Whitespace

\* C10, as claimed: no word begins or ends with whitespace.
C10_WordsTrimmed ==
    \A k \in 1..Len(words) : words[k].text = strip(words[k].text)

\* C10, amended: no word begins with whitespace; a word ends with
\* whitespace only when a token that continues it does.
C10_WordsTrimmedLeft ==
    WordsBuilt =>
        LET gs == WordSegments(tokens, FALSE)
        IN  /\ Len(gs) = Len(words)
            /\ \A k \in 1..Len(words) :
                 /\ words[k].text # <<>>
                 /\ words[k].text[1] \notin Whitespace
                 /\ EndsInWhitespace(words[k].text) =>
                      \E j \in (gs[k].first + 1)..gs[k].last :
                          EndsInWhitespace(tokens[j].text)

\* A word that ends with whitespace.
C10_Witness ==
    /\ WordsBuilt
    /\ \E k \in 1..Len(words) : EndsInWhitespace(words[k].text)

-----------------------------------------------------------------------------
(* Properties of the cues *)

GenReturned == gpc = "done"

\* ceil(n / words_per_chunk)
CueCount(n) == (n + words_per_chunk - 1) \div words_per_chunk

\* The words of cue k: the k-th run of words_per_chunk words, the last run
\* being what is left.
CueWords(ws, k) ==
    SubSeq(ws, (k - 1) * words_per_chunk + 1, Min(k * words_per_chunk, Len(ws)))

RECURSIVE AllCueWords(_, _)
AllCueWords(ws, k) ==
    IF k = 0 THEN <<>> ELSE AllCueWords(ws, k - 1) \o CueWords(ws, k)

\* The lines of the document
DocumentLines == split(gvtt_content, "\n")

\* C11: the document of L words holds ceil(L / 6) cues after the header
\* (the header alone when L = 0); cue k holds the k-th run of at most 6
\* words, the runs in order make the word list; its text is its words
\* joined by single spaces, its start the first word's start_ms and its end
\* the last word's end_ms.
C11_CuesOfSixWords ==
    GenReturned =>
        LET doc == DocumentLines
            n   == CueCount(Len(words))
        IN  /\ Len(doc) = 3 * n + 3
            /\ doc[1] = WEBVTT /\ doc[2] = <<>> /\ doc[Len(doc)] = <<>>
            /\ Cardinality({ l \in 1..Len(doc) : contains(doc[l], Arrow) }) = n
            /\ words = <<>> => gvtt_content = Header
            /\ AllCueWords(words, n) = words
            /\ \A k \in 1..n :
                 LET cue == CueWords(words, k)
                 IN  /\ Len(cue) \in 1..words_per_chunk
                     /\ doc[3 * k] =
                            format_vtt_timestamp(cue[1].start_ms)
                              \o <<" ">> \o Arrow \o <<" ">>
                              \o format_vtt_timestamp(cue[Len(cue)].end_ms)
                     /\ doc[3 * k + 1] = CueText(cue)
                     /\ doc[3 * k + 2] = <<>>

\* Two full cues and a third of one word.
C11_Witness ==
    /\ GenReturned
    /\ Len(words) = 2 * words_per_chunk + 1
    /\ Len(DocumentLines) = 12
    /\ DocumentLines[9] =
           format_vtt_timestamp(words[Len(words)].start_ms)
             \o <<" ">> \o Arrow \o <<" ">>
             \o format_vtt_timestamp(words[Len(words)].end_ms)

-----------------------------------------------------------------------------
(* get_transcript and get_transcript_vtt *)

Handlers == {"get_transcript", "get_transcript_vtt"}

\* db_id of the query string: absent, empty, a number, not a number
DbIds == { NoArgument } \cup
         { [given |-> TRUE, text |-> x] : x \in { <<>>, <<"7">>, <<"x">> } }

\* "if db_id:"
Truthy(arg) == arg.given /\ arg.text # <<>>

\* int(db_id) returns: the argument is a number
IsInt(arg) ==
    arg.text # <<>> /\ \A k \in 1..Len(arg.text) : arg.text[k] \in Digits

\* What the provider's transcript may hold: with or without the key 'text',
\* with tokens generate_vtt reads or with a token it raises on.
TranscriptData == [parsed : {TRUE}, has_text : BOOLEAN, tokens_ok : BOOLEAN]

\* jsonify({'error': str(e)}), 500
ErrorResponse == [status |-> 500, body |-> "error"]

\* The response after the clean up: jsonify({'text': transcript_data['text']})
\* (the outer except when the key is missing), Response(vtt_content, ...)
ResponseOf(h, data) ==
    IF h = "get_transcript"
    THEN IF data.has_text THEN [status |-> 200, body |-> "text"]
         ELSE ErrorResponse
    ELSE [status |-> 200, body |-> "vtt"]

\* The control point after transcript_data = res.json()
AfterJson(h) == IF h = "get_transcript_vtt" THEN "vtt" ELSE "db"

InitH ==
    /\ handler \in Handlers
    /\ db_id \in DbIds
    /\ transcript_data = NoTranscript
    /\ requests = <<>>
    /\ delete_raised = FALSE
    /\ db_update = "none"
    /\ response = NoResponse
    /\ hpc = "call"
    /\ TranslateIdle
    /\ GenIdle
    /\ FormatIdle
    /\ PollIdle

\* An exception that reaches the outer except clauses of the handler
Raise ==
    /\ response' = ErrorResponse
    /\ hpc' = "done"

\* res = session.get(".../transcript") returns
Fetch ==
    /\ hpc = "call"
    /\ requests' = Append(requests, "GET")
    /\ hpc' = "status"
    /\ UNCHANGED <<handler, db_id, transcript_data, delete_raised, db_update,
                   response>>
    /\ UNCHANGED not_hvars

\* session.get raises (no connection, time out)
FetchFails ==
    /\ hpc = "call"
    /\ requests' = Append(requests, "GET")
    /\ Raise
    /\ UNCHANGED <<handler, db_id, transcript_data, delete_raised, db_update>>
    /\ UNCHANGED not_hvars

\* res.raise_for_status() returns
StatusOk ==
    /\ hpc = "status"
    /\ hpc' = "json"
    /\ UNCHANGED <<handler, db_id, transcript_data, requests, delete_raised,
                   db_update, response>>
    /\ UNCHANGED not_hvars

\* res.raise_for_status() raises: the provider answered 4xx or 5xx
StatusFails ==
    /\ hpc = "status"
    /\ Raise
    /\ UNCHANGED <<handler, db_id, transcript_data, requests, delete_raised,
                   db_update>>
    /\ UNCHANGED not_hvars

\* transcript_data = res.json()
Json ==
    /\ hpc = "json"
    /\ transcript_data' \in TranscriptData
    /\ hpc' = AfterJson(handler)
    /\ UNCHANGED <<handler, db_id, requests, delete_raised, db_update, response>>
    /\ UNCHANGED not_hvars

\* res.json() raises: the body is not JSON
JsonFails ==
    /\ hpc = "json"
    /\ Raise
    /\ UNCHANGED <<handler, db_id, transcript_data, requests, delete_raised,
                   db_update>>
    /\ UNCHANGED not_hvars

\* vtt_content = generate_vtt(transcript_data) returns
GenerateVtt ==
    /\ hpc = "vtt"
    /\ transcript_data.tokens_ok
    /\ hpc' = "db"
    /\ UNCHANGED <<handler, db_id, transcript_data, requests, delete_raised,
                   db_update, response>>
    /\ UNCHANGED not_hvars

\* generate_vtt raises (a token without 'text', 'start_ms' or 'end_ms')
GenerateVttFails ==
    /\ hpc = "vtt"
    /\ ~transcript_data.tokens_ok
    /\ Raise
    /\ UNCHANGED <<handler, db_id, transcript_data, requests, delete_raised,
                   db_update>>
    /\ UNCHANGED not_hvars

\* "if db_id:" is false: print("No db_id provided!")
NoDbId ==
    /\ hpc = "db"
    /\ ~Truthy(db_id)
    /\ db_update' = "skipped"
    /\ hpc' = "delete"
    /\ UNCHANGED <<handler, db_id, transcript_data, requests, delete_raised,
                   response>>
    /\ UNCHANGED not_hvars

\* The database update: int(db_id) raises ValueError, or the UPDATE raises
\* (the key 'text' is missing, sqlite fails), or it is committed. Both except
\* clauses only print.
UpdateDb ==
    /\ hpc = "db"
    /\ Truthy(db_id)
    /\ \/ ~IsInt(db_id) /\ db_update' = "value_error"
       \/ IsInt(db_id) /\ db_update' = "error"
       \/ IsInt(db_id) /\ transcript_data.has_text /\ db_update' = "committed"
    /\ hpc' = "delete"
    /\ UNCHANGED <<handler, db_id, transcript_data, requests, delete_raised,
                   response>>
    /\ UNCHANGED not_hvars

\* "Clean up - delete the transcription": session.delete returns, or raises
\* and "except: pass" goes on
Delete ==
    /\ hpc = "delete"
    /\ requests' = Append(requests, "DELETE")
    /\ delete_raised' \in BOOLEAN
    /\ hpc' = "respond"
    /\ UNCHANGED <<handler, db_id, transcript_data, db_update, response>>
    /\ UNCHANGED not_hvars

\* The return after the clean up
Respond ==
    /\ hpc = "respond"
    /\ response' = ResponseOf(handler, transcript_data)
    /\ hpc' = "done"
    /\ UNCHANGED <<handler, db_id, transcript_data, requests, delete_raised,
                   db_update>>
    /\ UNCHANGED not_hvars

NextH ==
    \/ Fetch \/ FetchFails \/ StatusOk \/ StatusFails \/ Json \/ JsonFails
    \/ GenerateVtt \/ GenerateVttFails \/ NoDbId \/ UpdateDb \/ Delete
    \/ Respond

SpecHandlers == InitH /\ [][NextH]_vars

HandlerReturned == hpc = "done"

Requested(kind) == \E k \in 1..Len(requests) : requests[k] = kind

\* C14, as claimed: once the transcript has been requested, every return of
\* the handler comes after a delete request, and the response is what it is
\* whether or not the delete raised.
C14_DeleteOnEveryExit ==
    HandlerReturned /\ Requested("GET") =>
        /\ Requested("DELETE")
        /\ response = ResponseOf(handler, transcript_data)

\* What the handlers do: the delete is requested once, after the transcript
\* was fetched, parsed and (get_transcript_vtt) turned into subtitles,
\* whatever became of the database update; no return before that point comes
\* after a delete, and a delete that raised leaves the response as it is.
DeleteAfterTranscriptReady ==
    HandlerReturned =>
        /\ Requested("DELETE") <=>
             /\ transcript_data.parsed
             /\ handler = "get_transcript_vtt" => transcript_data.tokens_ok
        /\ Requested("DELETE") =>
             /\ requests = <<"GET", "DELETE">>
             /\ db_update # "none"
             /\ response = ResponseOf(handler, transcript_data)
        /\ ~Requested("DELETE") =>
             /\ requests = <<"GET">>
             /\ db_update = "none"
             /\ response = ErrorResponse

\* A return after a failed database update and a delete that raised.
DeleteAfterDbFailure ==
    /\ HandlerReturned
    /\ db_update \in {"value_error", "error"}
    /\ delete_raised
    /\ response.status = 200

-----------------------------------------------------------------------------
(* sonox.py: main and poll_until_complete *)

\* The polls are counted up to MaxPolls; the loop itself has no bound.
MaxPolls == 4

\* The statuses of a transcription that is not finished: the provider's two,
\* and any status the code does not name
Pending == {"queued", "processing", "other"}

\* The statuses that end the work of the provider
Final == {"completed", "error"}

\* What the provider may do with a transcription: start it, finish it or
\* fail. It may also do nothing, for ever.
NextStatus(st) ==
    IF st = "queued" THEN {"processing", "other", "error"}
    ELSE IF st = "other" THEN {"processing", "error"}
    ELSE IF st = "processing" THEN {"completed", "error"}
    ELSE {}

\* A loop that sleeps on "completed" too and returns on what is left.
AfterStatusPending(st) ==
    IF st = "error" THEN "raised"
    ELSE IF st = "completed" THEN "sleep"
    ELSE "returned"

\* if data["status"] == "completed": return
\* elif data["status"] == "error": raise Exception(...)
\* time.sleep(1)
AfterStatus(st) ==
    IF st = "completed" THEN "returned"
    ELSE IF st = "error" THEN "raised"
    ELSE "sleep"

InitP ==
    /\ remote_status = "none"
    /\ status = "none"
    /\ polls = 0
    /\ poll_result = "none"
    /\ main_requests = <<>>
    /\ mpc = "create"
    /\ TranslateIdle
    /\ GenIdle
    /\ FormatIdle
    /\ HandlerIdle

\* session.post(".../v1/transcriptions") answers with the id: the
\* transcription exists, main calls poll_until_complete
Create ==
    /\ mpc = "create"
    /\ main_requests' = Append(main_requests, "POST")
    /\ remote_status' = "queued"
    /\ mpc' = "poll"
    /\ UNCHANGED <<status, polls, poll_result>>
    /\ UNCHANGED not_pvars

\* The post raises, or raise_for_status, or the answer has no id
CreateFails ==
    /\ mpc = "create"
    /\ main_requests' = Append(main_requests, "POST")
    /\ mpc' = "raised"
    /\ UNCHANGED <<remote_status, status, polls, poll_result>>
    /\ UNCHANGED not_pvars

\* The provider works on the transcription while main polls.
Provider ==
    /\ mpc \in {"poll", "sleep"}
    /\ remote_status' \in NextStatus(remote_status)
    /\ UNCHANGED <<status, polls, poll_result, main_requests, mpc>>
    /\ UNCHANGED not_pvars

Counted(n) == IF n < MaxPolls THEN n + 1 ELSE n

\* One pass of "while True" whose request is answered with a status
Poll ==
    /\ mpc = "poll"
    /\ status' = remote_status
    /\ polls' = Counted(polls)
    /\ LET then == AfterStatus(remote_status)
       IN  /\ poll_result' = IF then = "sleep" THEN "none" ELSE then
           /\ mpc' = IF then = "returned" THEN "fetch" ELSE then
    /\ UNCHANGED <<remote_status, main_requests>>
    /\ UNCHANGED not_pvars

\* One pass whose request fails: session.get or raise_for_status raises,
\* the body is not JSON or holds no status
PollFails ==
    /\ mpc = "poll"
    /\ status' = "failed"
    /\ polls' = Counted(polls)
    /\ poll_result' = "raised"
    /\ mpc' = "raised"
    /\ UNCHANGED <<remote_status, main_requests>>
    /\ UNCHANGED not_pvars

\* time.sleep(1) returns
Sleep ==
    /\ mpc = "sleep"
    /\ mpc' = "poll"
    /\ UNCHANGED <<remote_status, status, polls, poll_result, main_requests>>
    /\ UNCHANGED not_pvars

\* "Get the transcript text": the transcript is fetched and printed, or the
\* request fails
GetTranscript ==
    /\ mpc = "fetch"
    /\ main_requests' = Append(main_requests, "GET")
    /\ mpc' \in {"delete", "raised"}
    /\ UNCHANGED <<remote_status, status, polls, poll_result>>
    /\ UNCHANGED not_pvars

\* "Delete the transcription": the transcription is deleted, or the request
\* fails
DeleteTranscription ==
    /\ mpc = "delete"
    /\ main_requests' = Append(main_requests, "DELETE")
    /\ \/ mpc' = "done" /\ remote_status' = "deleted"
       \/ mpc' = "raised" /\ UNCHANGED remote_status
    /\ UNCHANGED <<status, polls, poll_result>>
    /\ UNCHANGED not_pvars

\* The steps of the program
Program ==
    \/ Create \/ CreateFails \/ Poll \/ PollFails \/ Sleep \/ GetTranscript
    \/ DeleteTranscription

NextP == Program \/ Provider

SpecPoll == InitP /\ [][NextP]_vars

\* The program runs on: a request is answered or fails, a sleep ends.
SpecPollFair == SpecPoll /\ WF_vars(Program)

-----------------------------------------------------------------------------
(* Properties of the polling *)

Sent(kind) == \E k \in 1..Len(main_requests) : main_requests[k] = kind

\* poll_until_complete has returned or raised
PollEnded == poll_result # "none"

\* The last poll and the place of the program agree: a return is after
\* "completed", a raise after "error" or a failed request and at once; after
\* any other status the loop is at its sleep or at its next request, which
\* nothing keeps from being made; the transcript is fetched or deleted only
\* after the return.
PollingRule ==
    /\ poll_result = "returned" <=> status = "completed"
    /\ poll_result = "raised" <=> status \in {"error", "failed"}
    /\ poll_result = "raised" => mpc = "raised"
    /\ status \in Pending => mpc \in {"sleep", "poll"}
    /\ mpc = "sleep" => status \in Pending /\ ENABLED Sleep
    /\ mpc = "poll" => ENABLED Poll
    /\ mpc \in {"fetch", "delete", "done"} => poll_result = "returned"
    /\ Sent("GET") \/ Sent("DELETE") => poll_result = "returned"

\* C15: poll_until_complete returns only after a poll that saw "completed",
\* raises as soon as a poll sees "error" or fails, and polls again after any
\* other status, however many polls were made; it ends once the status at
\* the provider is "completed" or "error", and only by such a poll or a
\* failed one; main fetches and deletes the transcript only after a poll
\* that saw "completed".
C15_PollUntilComplete ==
    /\ []PollingRule
    /\ (remote_status \in Final) ~> PollEnded

\* MaxPolls polls or more, the last one the first to see "completed", the
\* transcript fetched and deleted after it.
C15_Witness ==
    /\ polls = MaxPolls
    /\ status = "completed"
    /\ poll_result = "returned"
    /\ main_requests = <<"POST", "GET", "DELETE">>
    /\ mpc = "done"

\* Polls without end: MaxPolls polls or more and the loop at its sleep.
StillPolling ==
    /\ polls = MaxPolls
    /\ status \in Pending
    /\ mpc = "sleep"

=============================================================================
